---- MODULE Spec2Model ----
(***************************************************************************)
(* A model of the Fock-state encoding of src/src/fockstate.cpp: the        *)
(* (m, n, code buffer) representation, its constructors, the lexicographic *)
(* successor, tensor product, slicing, equality, the textual parser and    *)
(* renderer, and separate_state.                                           *)
(*                                                                         *)
(* A fockstate object is the record                                        *)
(*   [m, n, code, buf]                                                     *)
(* where code is the kind of pointer held by _code (nullptr, the static    *)
(* n0_buffer, or a heap buffer) and buf is the content of the buffer (the  *)
(* char values, 'A' + mode).  _owned_data is not a field of the record:    *)
(* every object this file builds has it true exactly when _code is a heap  *)
(* buffer, and it is read only together with a non-null _code.             *)
(***************************************************************************)
EXTENDS Integers, Sequences, FiniteSets, TLC

(* ------------------------------------------------------------------ *)
(* Bounds of the model                                                 *)
(* ------------------------------------------------------------------ *)
\* largest mode count built by the constructors and by operator*
MaxM == 3
\* largest particle count built by the constructors and by operator*
MaxN == 2
\* largest count c of operator+(c) and operator+=(c)
MaxC == 2
\* largest step given to slice
MaxStep == 2
\* mode counts of the enumeration of the (m, n) spaces
MaxEnumM == 4
\* particle counts of the enumeration of the (m, n) spaces
MaxEnumN == 4
\* most mode-occupation terms of a generated text
MaxTerms == 3

(* ------------------------------------------------------------------ *)
(* Characters and buffers                                              *)
(* ------------------------------------------------------------------ *)
\* the character 'A': mode i is stored as the char i + 'A'
CharA == 65

\* char is a signed 8-bit integer in this build: storing an int into a
\* char keeps it modulo 2^8
ToChar(v) == ((v + 128) % 256) - 128

NULLPTR == "nullptr"
N0_BUFFER == "n0_buffer"
HEAP == "heap"

\* the error messages of the exceptions
ErrNone == "ok"
ErrNdef == "cannot make operation on ndef-state"
ErrBadSlice == "invalid fockstate to replace in slice"
ErrInvalidMode == "invalid mode"
ErrParse == "invalid fock state representation"
ErrParseAnnot0 == "invalid fock state representation (annotation on 0 photons)"
ErrParseNoClose == "invalid fock state representation (no annotation close)"
ErrParseBadClose == "invalid fock state representation (bad close)"
ErrParseExtra == "invalid fock state representation (extra chars)"
\* a read through a null pointer: the behaviour is undefined
ErrUB == "undefined behaviour (read through nullptr)"

\* no object (an operation that threw returns none)
NoState == [m |-> -1, n |-> -1, code |-> NULLPTR, buf |-> <<>>]

RECURSIVE SumSeq(_)
SumSeq(s) == IF s = <<>> THEN 0 ELSE Head(s) + SumSeq(Tail(s))

\* the buffer written by the loops "for i < m: for j < fs_vect[i]: code[k++] = char(i + 'A')"
RECURSIVE FillFromVect(_, _)
FillFromVect(v, i) ==
    IF i > Len(v) THEN <<>>
    ELSE [j \in 1..v[i] |-> ToChar((i - 1) + CharA)] \o FillFromVect(v, i + 1)

(* ------------------------------------------------------------------ *)
(* Constructors                                                        *)
(* ------------------------------------------------------------------ *)
\* fockstate::fockstate()
fockstate_default ==
    [m |-> 0, n |-> 0, code |-> NULLPTR, buf |-> <<>>]

\* fockstate::fockstate(int m)
fockstate_m(m) ==
    [m |-> m, n |-> 0, code |-> N0_BUFFER, buf |-> <<>>]

\* fockstate::fockstate(int m, int n)
fockstate_m_n(m, n) ==
    IF n = 0
    THEN [m |-> m, n |-> n, code |-> N0_BUFFER, buf |-> <<>>]
    ELSE [m |-> m, n |-> n, code |-> HEAP, buf |-> [i \in 1..n |-> CharA]]

\* fockstate::_set_fs_vect, as called by fockstate(const std::vector<int> &)
set_fs_vect(v) ==
    LET n == SumSeq(v) IN
    IF n = 0
    THEN [m |-> Len(v), n |-> 0, code |-> N0_BUFFER, buf |-> <<>>]
    ELSE [m |-> Len(v), n |-> n, code |-> HEAP, buf |-> FillFromVect(v, 1)]

\* fockstate::fockstate(int m, int n, const char *code, bool owned_data)
fockstate_raw(m, n, buf) ==
    [m |-> m, n |-> n, code |-> HEAP, buf |-> buf]

\* fockstate::fockstate(const fockstate &b)
fockstate_copy(b) ==
    IF b.code # NULLPTR
    THEN IF b.n # 0
         THEN [m |-> b.m, n |-> b.n, code |-> HEAP, buf |-> b.buf]
         ELSE [m |-> b.m, n |-> b.n, code |-> N0_BUFFER, buf |-> <<>>]
    ELSE [m |-> b.m, n |-> b.n, code |-> NULLPTR, buf |-> <<>>]

\* fockstate::operator=(const fockstate &b) on the object a (a distinct from b)
assign(a, b) ==
    IF b.code # NULLPTR
    THEN IF b.n # 0
         THEN [m |-> b.m, n |-> b.n, code |-> HEAP, buf |-> b.buf]
         ELSE [m |-> b.m, n |-> b.n, code |-> N0_BUFFER, buf |-> <<>>]
    ELSE [m |-> b.m, n |-> b.n, code |-> NULLPTR, buf |-> <<>>]

(* ------------------------------------------------------------------ *)
(* Queries                                                             *)
(* ------------------------------------------------------------------ *)
IsDefined(fs) == fs.code # NULLPTR

\* the mode of the particle stored as the char c
ModeOf(c) == c - CharA

\* fockstate::to_vect
to_vect(fs) ==
    [i \in 1..fs.m |-> Cardinality({k \in 1..fs.n : fs.buf[k] - CharA = i - 1})]

(* ------------------------------------------------------------------ *)
(* Successor                                                           *)
(* ------------------------------------------------------------------ *)
\* for(i=_n-1; i>=0 && _code[i]==_m-1+'A'; i--); with 1-based positions
RECURSIVE ScanBack(_, _, _)
ScanBack(buf, i, top) ==
    IF i >= 1 /\ buf[i] = top THEN ScanBack(buf, i - 1, top) ELSE i

\* fockstate::operator++ with a fault: the particles after the incremented one keep their modes
inc_no_reset(fs) ==
    IF fs.code = NULLPTR THEN [err |-> ErrNdef, fs |-> fs]
    ELSE LET i == ScanBack(fs.buf, fs.n, fs.m - 1 + CharA) IN
         IF i < 1
         THEN [err |-> ErrNone, fs |-> [fs EXCEPT !.code = NULLPTR, !.buf = <<>>]]
         ELSE [err |-> ErrNone,
               fs |-> [fs EXCEPT !.code = HEAP,
                                 !.buf = [fs.buf EXCEPT ![i] = ToChar(fs.buf[i] + 1)]]]

\* fockstate::operator++
inc(fs) ==
    IF fs.code = NULLPTR THEN [err |-> ErrNdef, fs |-> fs]
    ELSE LET i == ScanBack(fs.buf, fs.n, fs.m - 1 + CharA) IN
         IF i < 1
         THEN [err |-> ErrNone, fs |-> [fs EXCEPT !.code = NULLPTR, !.buf = <<>>]]
         ELSE LET c == ToChar(fs.buf[i] + 1) IN
              [err |-> ErrNone,
               fs |-> [fs EXCEPT !.code = HEAP,
                                 !.buf = [j \in 1..fs.n |-> IF j < i THEN fs.buf[j] ELSE c]]]

\* while (c) { ++fs; c--; }: the first ++ that throws ends the loop with
\* the object as the earlier steps left it
RECURSIVE inc_times(_, _)
inc_times(fs, c) ==
    IF c = 0 THEN [err |-> ErrNone, fs |-> fs]
    ELSE LET r == inc(fs) IN
         IF r.err # ErrNone THEN r ELSE inc_times(r.fs, c - 1)

\* fockstate::operator+=(int c)
plus_eq(fs, c) == inc_times(fs, c)

\* fockstate::operator+(int c) const
plus(fs, c) ==
    IF fs.code = NULLPTR THEN [err |-> ErrNdef, fs |-> NoState]
    ELSE LET r == inc_times(fockstate_copy(fs), c) IN
         IF r.err # ErrNone THEN [err |-> r.err, fs |-> NoState] ELSE r

(* ------------------------------------------------------------------ *)
(* Tensor product                                                      *)
(* ------------------------------------------------------------------ *)
\* fockstate::operator* with a fault: b's mode indices are not offset by a's mode count
mul_no_offset(a, b) ==
    IF a.code = NULLPTR \/ b.code = NULLPTR THEN [err |-> ErrNdef, fs |-> NoState]
    ELSE [err |-> ErrNone,
          fs |-> fockstate_raw(a.m + b.m, a.n + b.n, a.buf \o b.buf)]

\* fockstate::operator*
mul(a, b) ==
    IF a.code = NULLPTR \/ b.code = NULLPTR THEN [err |-> ErrNdef, fs |-> NoState]
    ELSE [err |-> ErrNone,
          fs |-> fockstate_raw(a.m + b.m, a.n + b.n,
                     [k \in 1..(a.n + b.n) |->
                         IF k <= a.n THEN a.buf[k] ELSE ToChar(b.buf[k - a.n] + a.m)])]

(* ------------------------------------------------------------------ *)
(* Slicing                                                             *)
(* ------------------------------------------------------------------ *)
\* for(int i=start; i<end; i+=step) slice_m++;
RECURSIVE CountSteps(_, _, _)
CountSteps(i, end, step) ==
    IF i < end THEN 1 + CountSteps(i + step, end, step) ELSE 0

\* the test of _check_slice and slice on the char c of a particle
InSlice(c, start, end, step) ==
    /\ c >= start + CharA
    /\ c < end + CharA
    /\ (step = 1 \/ (c - start - CharA) % step = 0)

\* the sub-sequence of the elements of s that satisfy Keep, in order
RECURSIVE SelectInSlice(_, _, _, _)
SelectInSlice(s, start, end, step) ==
    IF s = <<>> THEN <<>>
    ELSE IF InSlice(Head(s), start, end, step)
         THEN <<Head(s)>> \o SelectInSlice(Tail(s), start, end, step)
         ELSE SelectInSlice(Tail(s), start, end, step)

\* fockstate::_check_slice: the normalized start and end, slice_m and slice_n
check_slice(fs, start0, end0, step) ==
    LET s1 == IF start0 < 0 THEN start0 + fs.m ELSE start0
        e1 == IF end0 < 0 THEN end0 + fs.m ELSE end0
        s2 == IF s1 < 0 THEN 0 ELSE s1
        e2 == IF e1 < 0 THEN 0 ELSE e1
        e3 == IF e2 > fs.m THEN fs.m ELSE e2
    IN  IF fs.code = NULLPTR
        THEN [err |-> ErrNdef, start |-> s2, end |-> e3, slice_m |-> 0, slice_n |-> 0]
        ELSE [err |-> ErrNone, start |-> s2, end |-> e3,
              slice_m |-> CountSteps(s2, e3, step),
              slice_n |-> Len(SelectInSlice(fs.buf, s2, e3, step))]

\* fockstate::slice with a fault: the kept particles are not renumbered from start
slice_no_remap(fs, start0, end0, step) ==
    LET c == check_slice(fs, start0, end0, step) IN
    IF c.err # ErrNone THEN [err |-> c.err, fs |-> NoState]
    ELSE IF c.slice_n = 0 THEN [err |-> ErrNone, fs |-> fockstate_m_n(c.slice_m, 0)]
    ELSE [err |-> ErrNone,
          fs |-> fockstate_raw(c.slice_m, c.slice_n,
                               SelectInSlice(fs.buf, c.start, c.end, step))]

\* fockstate::slice
slice(fs, start0, end0, step) ==
    LET c == check_slice(fs, start0, end0, step) IN
    IF c.err # ErrNone THEN [err |-> c.err, fs |-> NoState]
    ELSE IF c.slice_n = 0 THEN [err |-> ErrNone, fs |-> fockstate_m_n(c.slice_m, 0)]
    ELSE LET kept == SelectInSlice(fs.buf, c.start, c.end, step) IN
         [err |-> ErrNone,
          fs |-> fockstate_raw(c.slice_m, c.slice_n,
                     [k \in 1..Len(kept) |->
                         ToChar((kept[k] - c.start - CharA) \div step + CharA)])]

\* for(; i < _n && _code[i] < lim; i++): the first position from i (1-based)
\* whose char is not below lim
RECURSIVE SkipBelow(_, _, _)
SkipBelow(buf, i, lim) ==
    IF i <= Len(buf) /\ buf[i] < lim THEN SkipBelow(buf, i + 1, lim) ELSE i

\* what set_slice writes to _new_code: the particles below start, those of
\* fs moved by start, the particles from end on
set_slice_written(a, fs, start, end) ==
    LET i1 == SkipBelow(a.buf, 1, start + CharA)
        i2 == SkipBelow(a.buf, i1, end + CharA)
    IN  SubSeq(a.buf, 1, i1 - 1)
        \o [j \in 1..fs.n |-> ToChar(fs.buf[j] + start)]
        \o SubSeq(a.buf, i2, Len(a.buf))

\* fockstate::set_slice with a fault: the particles of fs are not moved by start
set_slice_no_offset(a, fs, start0, end0) ==
    LET c == check_slice(a, start0, end0, 1) IN
    IF c.err # ErrNone THEN [err |-> c.err, fs |-> NoState]
    ELSE IF c.slice_m # fs.m THEN [err |-> ErrBadSlice, fs |-> NoState]
    ELSE LET new_n == a.n - c.slice_n + fs.n IN
         IF new_n = 0 THEN [err |-> ErrNone, fs |-> fockstate_m_n(a.m, 0)]
         ELSE IF fs.n > 0 /\ fs.code = NULLPTR THEN [err |-> ErrUB, fs |-> NoState]
         ELSE LET w == set_slice_written(a, fs, 0, c.end) IN
              IF Len(w) # new_n THEN [err |-> ErrUB, fs |-> NoState]
              ELSE [err |-> ErrNone, fs |-> fockstate_raw(a.m, new_n, w)]

\* fockstate::set_slice. fs._code[j] is read for j < fs._n without a test of
\* fs._code: with fs._n > 0 and no buffer the read goes through nullptr.
\* _new_code holds new_n chars: writing another number of chars is a write
\* past the buffer or leaves chars unwritten.
set_slice(a, fs, start0, end0) ==
    LET c == check_slice(a, start0, end0, 1) IN
    IF c.err # ErrNone THEN [err |-> c.err, fs |-> NoState]
    ELSE IF c.slice_m # fs.m THEN [err |-> ErrBadSlice, fs |-> NoState]
    ELSE LET new_n == a.n - c.slice_n + fs.n IN
         IF new_n = 0 THEN [err |-> ErrNone, fs |-> fockstate_m_n(a.m, 0)]
         ELSE IF fs.n > 0 /\ fs.code = NULLPTR THEN [err |-> ErrUB, fs |-> NoState]
         ELSE LET w == set_slice_written(a, fs, c.start, c.end) IN
              IF Len(w) # new_n THEN [err |-> ErrUB, fs |-> NoState]
              ELSE [err |-> ErrNone, fs |-> fockstate_raw(a.m, new_n, w)]

(* ------------------------------------------------------------------ *)
(* Equality and the occupation query                                   *)
(* ------------------------------------------------------------------ *)
\* fockstate::operator== with a fault: the particle counts are not compared
eq_no_n(a, b) ==
    IF a.m # b.m THEN FALSE
    ELSE IF a.m = 0 /\ b.m = 0 THEN TRUE
    ELSE IF a.code = NULLPTR /\ b.code = NULLPTR THEN TRUE
    ELSE IF a.code = NULLPTR \/ b.code = NULLPTR THEN FALSE
    ELSE \A i \in 1..a.n : i <= Len(b.buf) => a.buf[i] = b.buf[i]

\* fockstate::operator==
eq(a, b) ==
    IF a.m # b.m \/ a.n # b.n THEN FALSE
    ELSE IF a.m = 0 /\ b.m = 0 THEN TRUE
    ELSE IF a.code = NULLPTR /\ b.code = NULLPTR THEN TRUE
    ELSE IF a.code = NULLPTR \/ b.code = NULLPTR THEN FALSE
    ELSE \A i \in 1..a.n : a.buf[i] = b.buf[i]

\* fockstate::operator!=
neq(a, b) == ~eq(a, b)

\* for(i=0; i<_n && _code[i]-'A'<=idx; i++) if (_code[i]-'A'==idx) nc++;
RECURSIVE CountMode(_, _, _)
CountMode(buf, i, idx) ==
    IF i <= Len(buf) /\ buf[i] - CharA <= idx
    THEN (IF buf[i] - CharA = idx THEN 1 ELSE 0) + CountMode(buf, i + 1, idx)
    ELSE 0

\* fockstate::operator[]: the results it can give. _code is read without a
\* test: with _n > 0 and no buffer the read goes through nullptr, and the
\* call faults or returns whatever count the bytes read give.
index(fs, idx) ==
    IF idx < 0 \/ idx >= fs.m THEN {[err |-> ErrInvalidMode, val |-> -1]}
    ELSE IF fs.code = NULLPTR /\ fs.n > 0
    THEN {[err |-> ErrUB, val |-> v] : v \in -1..fs.n}
    ELSE {[err |-> ErrNone, val |-> CountMode(fs.buf, 1, idx)]}

(* ------------------------------------------------------------------ *)
(* Texts                                                               *)
(* ------------------------------------------------------------------ *)
\* A text is the sequence of its chars, each a one-char string; the three
\* bytes of the closing bracket U+3009 are the chars "E3", "80", "89"; NUL
\* is the terminating zero of the C string.
NUL == "NUL"
Digits == <<"0", "1", "2", "3", "4", "5", "6", "7", "8", "9">>
IsDigit(c) == \E d \in 1..10 : Digits[d] = c
DigitVal(c) == (CHOOSE d \in 1..10 : Digits[d] = c) - 1
At(t, p) == IF p >= 1 /\ p <= Len(t) THEN t[p] ELSE NUL
RAngle == <<"E3", "80", "89">>

\* ss << int
RECURSIVE Dec(_)
Dec(v) == IF v < 10 THEN <<Digits[v + 1]>> ELSE Dec(v \div 10) \o <<Digits[(v % 10) + 1]>>

\* the fields of to_str for a defined state: the counts, "," before all but the first
RECURSIVE StrCounts(_, _)
StrCounts(v, i) ==
    IF i > Len(v) THEN <<>>
    ELSE (IF i > 1 THEN <<",">> ELSE <<>>) \o Dec(v[i]) \o StrCounts(v, i + 1)

\* fockstate::to_str (no annotation is stored: annots_vect holds empty strings)
to_str(fs) ==
    IF fs.code # NULLPTR
    THEN <<"|">> \o StrCounts(to_vect(fs), 1) \o <<">">>
    ELSE <<"|">> \o [i \in 1..(fs.m - 1) |-> ","] \o <<">">>

\* skip_blanks
RECURSIVE skip_blanks(_, _)
skip_blanks(t, p) == IF At(t, p) = " " THEN skip_blanks(t, p + 1) ELSE p

\* the digit loop with a fault: cn is not multiplied by 10
RECURSIVE ParseDigits_no_shift(_, _, _)
ParseDigits_no_shift(t, p, cn) ==
    IF IsDigit(At(t, p)) THEN ParseDigits_no_shift(t, p + 1, cn + DigitVal(At(t, p)))
    ELSE [p |-> p, cn |-> cn]

\* while (std::isdigit(*str)) { cn = 10 * cn + (*str - '0'); str++; }
RECURSIVE ParseDigits(_, _, _)
ParseDigits(t, p, cn) ==
    IF IsDigit(At(t, p)) THEN ParseDigits(t, p + 1, 10 * cn + DigitVal(At(t, p)))
    ELSE [p |-> p, cn |-> cn]

\* for (; str[j] && str[j] != '}'; j++);
RECURSIVE FindClose(_, _)
FindClose(t, p) ==
    IF At(t, p) # NUL /\ At(t, p) # "}" THEN FindClose(t, p + 1) ELSE p

\* the inner loop of _parse_str over the sub-terms of one mode: the position
\* after them, their total count, the exception. The annotations are parsed
\* into count_annot_map, a local that nothing reads.
RECURSIVE ParseSubTerms(_, _, _)
ParseSubTerms(t, p, total) ==
    IF ~(IsDigit(At(t, p)) \/ At(t, p) = "{")
    THEN [p |-> p, total |-> total, err |-> ErrNone]
    ELSE LET d == IF At(t, p) = "{" THEN [p |-> p, cn |-> 1] ELSE ParseDigits(t, p, 0) IN
         IF At(t, d.p) = "{"
         THEN IF d.cn = 0 THEN [p |-> d.p, total |-> total, err |-> ErrParseAnnot0]
              ELSE LET j == FindClose(t, d.p + 1) IN
                   IF At(t, j) = NUL
                   THEN [p |-> d.p, total |-> total, err |-> ErrParseNoClose]
                   ELSE ParseSubTerms(t, j + 1, total + d.cn)
         ELSE ParseSubTerms(t, d.p, total + d.cn)

\* the while (true) loop of _parse_str: the position it breaks at, fs_vect
RECURSIVE ParseTerms(_, _, _)
ParseTerms(t, p0, vect) ==
    LET p == skip_blanks(t, p0)
        c == At(t, p)
    IN  IF \/ c = NUL
           \/ ~(IsDigit(c) \/ c = "," \/ c = "{")
           \/ (vect # <<>> /\ c # ",")
           \/ (vect = <<>> /\ c = ",")
        THEN [p |-> p, vect |-> vect, err |-> ErrNone]
        ELSE LET p1 == IF c = "," THEN skip_blanks(t, p + 1) ELSE p
                 r == ParseSubTerms(t, p1, 0)
             IN  IF r.err # ErrNone THEN [p |-> r.p, vect |-> vect, err |-> r.err]
                 ELSE ParseTerms(t, r.p, Append(vect, r.total))

\* the loop that counts the commas of an ndef state: _m and the position it ends at
RECURSIVE ParseCommas(_, _, _)
ParseCommas(t, p0, m) ==
    LET p == skip_blanks(t, p0) IN
    IF At(t, p) # "," THEN [p |-> p, m |-> m] ELSE ParseCommas(t, p + 1, m + 1)

\* strncmp(str, "\xE3\x80\x89", 3) == 0
IsRAngle(t, p) == At(t, p) = RAngle[1] /\ At(t, p + 1) = RAngle[2] /\ At(t, p + 2) = RAngle[3]

\* _parse_str from the closing delimiter on: r is what the loops found
\* (p the position, vect, m the comma count or 0)
ParseClose(t, open_char, r) ==
    LET c == At(t, r.p) IN
    IF \/ (open_char = "[" /\ c # "]")
       \/ (open_char = "(" /\ c # ")")
       \/ (open_char = "|" /\ ~(c = ">" \/ IsRAngle(t, r.p)))
    THEN [err |-> ErrParseBadClose, fs |-> NoState]
    ELSE LET p1 == IF c \in {">", ")", "]"} THEN r.p + 1 ELSE r.p + 3
             p2 == skip_blanks(t, p1)
         IN  IF At(t, p2) # NUL THEN [err |-> ErrParseExtra, fs |-> NoState]
             ELSE IF r.m # 0
             THEN [err |-> ErrNone,
                   fs |-> [m |-> r.m, n |-> 0, code |-> NULLPTR, buf |-> <<>>]]
             ELSE [err |-> ErrNone, fs |-> set_fs_vect(r.vect)]

\* fockstate::_parse_str, as called by fockstate(const char *str): the
\* exception and the object built
parse_str(t) ==
    LET p0 == skip_blanks(t, 1)
        open_char == At(t, p0)
    IN  IF open_char \notin {"[", "|", "("} THEN [err |-> ErrParse, fs |-> NoState]
        ELSE LET r == ParseTerms(t, p0 + 1, <<>>) IN
             IF r.err # ErrNone THEN [err |-> r.err, fs |-> NoState]
             ELSE IF r.vect = <<>> /\ At(t, r.p) = ","
             THEN LET c == ParseCommas(t, r.p, 1) IN
                  ParseClose(t, open_char, [p |-> c.p, vect |-> r.vect, m |-> c.m])
             ELSE ParseClose(t, open_char, [p |-> r.p, vect |-> r.vect, m |-> 0])

(* ------------------------------------------------------------------ *)
(* separate_state                                                      *)
(* ------------------------------------------------------------------ *)
\* annotation::compatible_annotation: an annotation is its text, "" for
\* none; two annotations are compatible when one is empty or they are equal
compatible_annotation(a, b) == a = "" \/ b = "" \/ a = b

\* the merged annotation compatible_annotation gives
merge_annotation(a, b) == IF a = "" THEN b ELSE a

\* fockstate::photon2mode: the mode of particle k (1-based)
photon2mode(fs, k) == fs.buf[k] - CharA

\* annot_k in separate_state: iter_list and iter_list_end are two
\* value-initialized iterators, never set, so that iter_list != iter_list_end
\* is false and annot_k stays annotation() for every particle
annot_k(fs, k) == ""

\* the index of the first group whose annotation is compatible with a, 0 if none
FirstCompatible(groups, a) ==
    IF \E i \in 1..Len(groups) : compatible_annotation(groups[i].annot, a)
    THEN CHOOSE i \in 1..Len(groups) :
            /\ compatible_annotation(groups[i].annot, a)
            /\ \A j \in 1..(i - 1) : ~compatible_annotation(groups[j].annot, a)
    ELSE 0

\* the loop of separate_state over the particles: photon_groups
RECURSIVE photon_groups(_, _, _)
photon_groups(fs, k, groups) ==
    IF k > fs.n THEN groups
    ELSE LET a == annot_k(fs, k)
             i == FirstCompatible(groups, a)
         IN  IF i # 0
             THEN photon_groups(fs, k + 1,
                      [groups EXCEPT ![i] = [annot |-> merge_annotation(groups[i].annot, a),
                                             photons |-> Append(groups[i].photons, k)]])
             ELSE photon_groups(fs, k + 1,
                      Append(groups, [annot |-> a, photons |-> <<k>>]))

\* std::vector<int> state(_m) with state[photon2mode(photon_id)] += 1 for the group
GroupVect(fs, photons) ==
    [i \in 1..fs.m |->
        Cardinality({j \in 1..Len(photons) : photon2mode(fs, photons[j]) = i - 1})]

\* fockstate::separate_state, on a state whose particles can be read
separate_state(fs) ==
    IF fs.n = 0 THEN <<fockstate_copy(fs)>>
    ELSE LET g == photon_groups(fs, 1, <<>>) IN
         IF Len(g) = 1 THEN <<fockstate_copy(fs)>>
         ELSE [i \in 1..Len(g) |-> set_fs_vect(GroupVect(fs, g[i].photons))]

(* ------------------------------------------------------------------ *)
(* Generated texts                                                     *)
(* ------------------------------------------------------------------ *)
\* A text is generated from a derivation [frame, terms]: the frame gives
\* the delimiters, whether blanks are put wherever the parser skips them,
\* and the chars after the closing delimiter; a term is the sequence of
\* its sub-terms [d, a, k]: the digits d, the annotation text a, and k =
\* "none" (no annotation token), "closed" ({a}) or "open" ({a with no }).
Sub(d, a, k) == [d |-> d, a |-> a, k |-> k]

Terms ==
    { <<>>,
      <<Sub(<<"0">>, "", "none")>>,
      <<Sub(<<"1">>, "", "none")>>,
      <<Sub(<<"2">>, "", "none")>>,
      <<Sub(<<"1", "0">>, "", "none")>>,
      <<Sub(<<>>, "a", "closed")>>,
      <<Sub(<<"1">>, "b", "closed")>>,
      <<Sub(<<"2">>, "a", "closed"), Sub(<<"1">>, "", "none")>>,
      <<Sub(<<"0">>, "a", "closed")>>,
      <<Sub(<<>>, "a", "open")>> }

Frame(open, close, blank, extra) ==
    [open |-> open, close |-> close, blank |-> blank, extra |-> extra]

ValidFrames ==
    { Frame(<<"|">>, <<">">>, b, <<>>) : b \in BOOLEAN }
    \cup { Frame(<<"|">>, RAngle, b, <<>>) : b \in BOOLEAN }
    \cup { Frame(<<"[">>, <<"]">>, b, <<>>) : b \in BOOLEAN }
    \cup { Frame(<<"(">>, <<")">>, b, <<>>) : b \in BOOLEAN }

DefectFrames ==
    { Frame(<<"<">>, <<">">>, FALSE, <<>>),
      Frame(<<>>, <<">">>, FALSE, <<>>),
      Frame(<<"|">>, <<"]">>, FALSE, <<>>),
      Frame(<<"[">>, <<">">>, FALSE, <<>>),
      Frame(<<"(">>, RAngle, FALSE, <<>>),
      Frame(<<"|">>, <<>>, FALSE, <<>>),
      Frame(<<"|">>, <<">">>, TRUE, <<"x">>) }

HasOpen(term) == \E i \in 1..Len(term) : term[i].k = "open"

\* the derivations: an unterminated annotation is the last thing before the
\* closing delimiter (a later "}" would terminate it), and a list of one
\* term has a sub-term (with none it is the list of no term)
Grams ==
    { g \in [frame : ValidFrames \cup DefectFrames,
             terms : UNION {[1..k -> Terms] : k \in 0..MaxTerms}] :
        /\ \A i \in 1..(Len(g.terms) - 1) : ~HasOpen(g.terms[i])
        /\ Len(g.terms) = 1 => g.terms[1] # <<>> }

RenderSub(st) ==
    st.d \o (IF st.k = "none" THEN <<>>
             ELSE <<"{", st.a>> \o (IF st.k = "closed" THEN <<"}">> ELSE <<>>))

RECURSIVE RenderTerm(_)
RenderTerm(term) ==
    IF term = <<>> THEN <<>> ELSE RenderSub(Head(term)) \o RenderTerm(Tail(term))

RECURSIVE RenderTerms(_, _, _)
RenderTerms(terms, i, blank) ==
    IF i > Len(terms) THEN <<>>
    ELSE (IF i > 1 THEN blank \o <<",">> \o blank ELSE <<>>)
         \o RenderTerm(terms[i]) \o RenderTerms(terms, i + 1, blank)

Render(g) ==
    LET blank == IF g.frame.blank THEN <<" ">> ELSE <<>> IN
    blank \o g.frame.open \o blank \o RenderTerms(g.terms, 1, blank)
    \o blank \o g.frame.close \o blank \o g.frame.extra

(* ------------------------------------------------------------------ *)
(* The state machine of a client of the class                          *)
(* ------------------------------------------------------------------ *)
\* x, y : two fockstate objects of the client
\* res  : the object returned by the last const operation (a temporary:
\*        it lives until the next statement), NoState when there is none
\* last : the last operation: its name op, its arguments s, e, k, its
\*        exception err, the value it returned (val an int, flag a bool),
\*        in src where its operand came from, and in pre the operand the
\*        operation consumed (the object before an in-place operation,
\*        the replacement of set_slice)
\* hist : the states visited by an enumeration
\* txt  : a text, as the sequence of its chars
\* gram : how a generated text was derived from the grammar
VARIABLES x, y, res, last, hist, txt, gram

vars == <<x, y, res, last, hist, txt, gram>>

Op(op, s, e, k, err, val, flag, src, pre) ==
    [op |-> op, s |-> s, e |-> e, k |-> k, err |-> err, val |-> val,
     flag |-> flag, src |-> src, pre |-> pre]

\* between two statements of the client
IdleOp == Op("idle", 0, 0, 0, ErrNone, 0, FALSE, "", NoState)
Idle == last = IdleOp

\* no derivation: the text, if any, was not generated
NoGram == [frame |-> [open |-> <<>>, close |-> <<>>, blank |-> FALSE, extra |-> <<>>],
           terms |-> <<>>]

\* the occupation vectors given to fockstate(const std::vector<int> &)
VectInputs ==
    {v \in UNION {[1..k -> 0..MaxN] : k \in 0..MaxM} : SumSeq(v) <= MaxN}

\* the start and end arguments given to slice and set_slice
SliceIdx == (-1)..MaxM

Init ==
    /\ x = fockstate_default
    /\ y = fockstate_default
    /\ res = NoState
    /\ last = IdleOp
    /\ hist = <<>>
    /\ txt = <<>>
    /\ gram = NoGram

Rest == UNCHANGED <<hist, txt, gram>>

\* y holds its default-constructed value.  A statement that does not read y
\* (a slice of x, x[idx], a construction of x from a text) is taken with y
\* in this value: what it does is a function of x or of the text alone, and
\* every value x takes, another constructor gives it whatever y holds.
YParked == y = fockstate_default

\* x = fockstate();
CtorDefault ==
    /\ Idle
    /\ x' = fockstate_default
    /\ last' = Op("fockstate()", 0, 0, 0, ErrNone, 0, FALSE, "", NoState)
    /\ res' = NoState
    /\ UNCHANGED y /\ Rest

\* x = fockstate(m);
CtorM ==
    /\ Idle
    /\ \E m \in 0..MaxM :
        /\ x' = fockstate_m(m)
        /\ last' = Op("fockstate(m)", m, 0, 0, ErrNone, 0, FALSE, "", NoState)
        /\ res' = NoState
        /\ UNCHANGED y /\ Rest

\* x = fockstate(m, n); the constructor puts every particle in mode 0, which
\* is a mode of the state when m >= 1: the client gives n > 0 with m >= 1
CtorMN ==
    /\ Idle
    /\ \E m \in 0..MaxM, n \in 0..MaxN :
        /\ n > 0 => m >= 1
        /\ x' = fockstate_m_n(m, n)
        /\ last' = Op("fockstate(m,n)", m, n, 0, ErrNone, 0, FALSE, "", NoState)
        /\ res' = NoState
        /\ UNCHANGED y /\ Rest

\* x = fockstate(fs_vect);
CtorVect ==
    /\ Idle
    /\ \E v \in VectInputs :
        /\ x' = set_fs_vect(v)
        /\ last' = Op("fockstate(vect)", 0, 0, 0, ErrNone, 0, FALSE, "", NoState)
        /\ res' = NoState
        /\ UNCHANGED y /\ Rest

\* fockstate y(x);
CopyYX ==
    /\ Idle
    /\ y' = fockstate_copy(x)
    /\ last' = Op("copy", 0, 0, 0, ErrNone, 0, FALSE, "", NoState)
    /\ res' = NoState
    /\ UNCHANGED x /\ Rest

\* y = x;
AssignYX ==
    /\ Idle
    /\ y' = assign(y, x)
    /\ last' = Op("assign", 0, 0, 0, ErrNone, 0, FALSE, "", NoState)
    /\ res' = NoState
    /\ UNCHANGED x /\ Rest

\* x = y;
AssignXY ==
    /\ Idle
    /\ x' = assign(x, y)
    /\ last' = Op("assign", 0, 0, 0, ErrNone, 0, FALSE, "", NoState)
    /\ res' = NoState
    /\ UNCHANGED y /\ Rest

\* x = <the object the last operation returned>;
AssignXRes ==
    /\ res.m >= 0
    /\ x' = assign(x, res)
    /\ last' = Op("assign", 0, 0, 0, ErrNone, 0, FALSE, "", NoState)
    /\ res' = NoState
    /\ UNCHANGED y /\ Rest

\* y = <the object the last operation returned>;
AssignYRes ==
    /\ res.m >= 0
    /\ y' = assign(y, res)
    /\ last' = Op("assign", 0, 0, 0, ErrNone, 0, FALSE, "", NoState)
    /\ res' = NoState
    /\ UNCHANGED x /\ Rest

\* ++x;
Inc ==
    /\ Idle
    /\ LET r == inc(x) IN
       /\ x' = r.fs
       /\ last' = Op("++", 0, 0, 1, r.err, 0, FALSE, "", x)
    /\ res' = NoState
    /\ UNCHANGED y /\ Rest

\* x += c;
PlusEq ==
    /\ Idle
    /\ \E c \in 0..MaxC :
        LET r == plus_eq(x, c) IN
        /\ x' = r.fs
        /\ last' = Op("+=", 0, 0, c, r.err, 0, FALSE, "", x)
        /\ res' = NoState
        /\ UNCHANGED y /\ Rest

\* x + c
Plus ==
    /\ Idle
    /\ \E c \in 0..MaxC :
        LET r == plus(x, c) IN
        /\ res' = r.fs
        /\ last' = Op("+", 0, 0, c, r.err, 0, FALSE, "", x)
        /\ UNCHANGED <<x, y>> /\ Rest

\* x * y
Mul ==
    /\ Idle
    /\ (IsDefined(x) /\ IsDefined(y)) => (x.m + y.m <= MaxM /\ x.n + y.n <= MaxN)
    /\ LET r == mul(x, y) IN
        /\ res' = r.fs
        /\ last' = Op("*", 0, 0, 0, r.err, 0, FALSE, "", NoState)
    /\ UNCHANGED <<x, y>> /\ Rest

\* x.slice(s, e, step)
Slice ==
    /\ Idle
    /\ YParked
    /\ \E s \in SliceIdx, e \in SliceIdx, step \in 1..MaxStep :
        LET r == slice(x, s, e, step) IN
        /\ res' = r.fs
        /\ last' = Op("slice", s, e, step, r.err, 0, FALSE, "", NoState)
        /\ UNCHANGED <<x, y>> /\ Rest

\* x.set_slice(y, s, e)
SetSliceY ==
    /\ Idle
    /\ \E s \in SliceIdx, e \in SliceIdx :
        LET r == set_slice(x, y, s, e) IN
        /\ r.fs.n <= MaxN
        /\ res' = r.fs
        /\ last' = Op("set_slice", s, e, 0, r.err, 0, FALSE, "y", y)
        /\ UNCHANGED <<x, y>> /\ Rest

\* x.set_slice(x.slice(s, e, step), s, e): the object slice returned is
\* the replacement, over the same range
SetSliceRes ==
    /\ last.op = "slice"
    /\ res.m >= 0
    /\ LET r == set_slice(x, res, last.s, last.e) IN
        /\ r.fs.n <= MaxN
        /\ res' = r.fs
        /\ last' = Op("set_slice", last.s, last.e, last.k, r.err, 0, FALSE, "slice", res)
    /\ UNCHANGED <<x, y>> /\ Rest

\* x[idx]
Index ==
    /\ Idle
    /\ YParked
    /\ \E idx \in (-1)..MaxM :
        \E r \in index(x, idx) :
            /\ last' = Op("[]", idx, 0, 0, r.err, r.val, FALSE, "", NoState)
            /\ res' = NoState
            /\ UNCHANGED <<x, y>> /\ Rest

\* x == y
Eq ==
    /\ Idle
    /\ last' = Op("==", 0, 0, 0, ErrNone, 0, eq(x, y), "", NoState)
    /\ res' = NoState
    /\ UNCHANGED <<x, y>> /\ Rest

\* x != y
Neq ==
    /\ Idle
    /\ last' = Op("!=", 0, 0, 0, ErrNone, 0, neq(x, y), "", NoState)
    /\ res' = NoState
    /\ UNCHANGED <<x, y>> /\ Rest

\* the end of the statement: the temporary is destroyed
EndStatement ==
    /\ ~Idle
    /\ last' = IdleOp
    /\ res' = NoState
    /\ txt' = <<>>
    /\ UNCHANGED <<x, y, hist, gram>>

\* the text of the occupation vector v between the delimiters of frame f
TextOfVect(f, v) ==
    Render([frame |-> f, terms |-> [i \in 1..Len(v) |-> <<Sub(Dec(v[i]), "", "none")>>]])

\* the text of m empty fields between the delimiters of frame f
TextOfCommas(f, m) ==
    Render([frame |-> f, terms |-> [i \in 1..m |-> <<>>]])

\* the texts given to fockstate(const char *) by the client
ClientTexts ==
    LET F == {f \in ValidFrames : ~f.blank} IN
    {TextOfVect(f, v) : f \in F, v \in VectInputs}
    \cup {TextOfCommas(f, m) : f \in F, m \in 2..MaxM}

\* x = fockstate(t); when the constructor throws nothing is assigned
CtorStr ==
    /\ Idle
    /\ YParked
    /\ \E t \in ClientTexts :
        LET r == parse_str(t) IN
        /\ x' = IF r.err = ErrNone THEN r.fs ELSE x
        /\ txt' = t
        /\ last' = Op("parse", 0, 0, 0, r.err, 0, FALSE, "text", NoState)
        /\ res' = NoState
        /\ UNCHANGED <<y, hist, gram>>

\* x.to_str()
ToStrX ==
    /\ Idle
    /\ txt' = to_str(x)
    /\ last' = Op("to_str", 0, 0, 0, ErrNone, 0, FALSE, "x", NoState)
    /\ res' = NoState
    /\ UNCHANGED <<x, y, hist, gram>>

\* fockstate(x.to_str().c_str()): the text just rendered from x is parsed
ParseRendered ==
    /\ last.op = "to_str" /\ last.src = "x"
    /\ LET r == parse_str(txt) IN
        /\ res' = r.fs
        /\ last' = Op("parse", 0, 0, 0, r.err, 0, FALSE, "to_str", NoState)
    /\ UNCHANGED <<x, y, hist, txt, gram>>

Next ==
    \/ EndStatement
    \/ CtorDefault \/ CtorM \/ CtorMN \/ CtorVect
    \/ CopyYX \/ AssignYX \/ AssignXY \/ AssignXRes \/ AssignYRes
    \/ Inc \/ PlusEq \/ Plus \/ Mul \/ Slice \/ SetSliceY \/ SetSliceRes
    \/ Index \/ Eq \/ Neq
    \/ CtorStr \/ ToStrX \/ ParseRendered

Spec == Init /\ [][Next]_vars

(* ------------------------------------------------------------------ *)
(* The enumeration of an (m, n) space                                  *)
(* ------------------------------------------------------------------ *)
\* fockstate x(m, n); while (x is defined) ++x;
\* last.s and last.e hold m and n, last.k the number of ++ applied, hist
\* the states ++ was applied to
InitEnum ==
    /\ \E m \in 1..MaxEnumM, n \in 0..MaxEnumN :
        /\ x = fockstate_m_n(m, n)
        /\ last = Op("fockstate(m,n)", m, n, 0, ErrNone, 0, FALSE, "", NoState)
    /\ y = fockstate_default
    /\ res = NoState
    /\ hist = <<>>
    /\ txt = <<>>
    /\ gram = NoGram

EnumInc ==
    /\ IsDefined(x)
    /\ LET r == inc(x) IN
        /\ x' = r.fs
        /\ last' = [last EXCEPT !.op = "++", !.k = last.k + 1, !.err = r.err]
    /\ hist' = Append(hist, x)
    /\ UNCHANGED <<y, res, txt, gram>>

NextEnum == EnumInc

SpecEnum == InitEnum /\ [][NextEnum]_vars

(* ------------------------------------------------------------------ *)
(* Parsing generated texts                                             *)
(* ------------------------------------------------------------------ *)
InitParse ==
    /\ \E g \in Grams :
        /\ gram = g
        /\ txt = Render(g)
    /\ x = fockstate_default
    /\ y = fockstate_default
    /\ res = NoState
    /\ last = IdleOp
    /\ hist = <<>>

\* fockstate r(txt)
ParseText ==
    /\ Idle
    /\ LET r == parse_str(txt) IN
        /\ res' = r.fs
        /\ last' = Op("parse", 0, 0, 0, r.err, 0, FALSE, "text", NoState)
    /\ UNCHANGED <<x, y, hist, txt, gram>>

\* r.to_str()
ToStrRes ==
    /\ last.op = "parse" /\ last.err = ErrNone
    /\ txt' = to_str(res)
    /\ last' = Op("to_str", 0, 0, 0, ErrNone, 0, FALSE, "res", NoState)
    /\ UNCHANGED <<x, y, res, hist, gram>>

\* r.separate_state(): hist holds the list returned
Separate ==
    /\ last.op = "parse" /\ last.err = ErrNone
    /\ hist' = separate_state(res)
    /\ last' = Op("separate_state", 0, 0, 0, ErrNone, 0, FALSE, "res", NoState)
    /\ UNCHANGED <<x, y, res, txt, gram>>

NextParse == ParseText \/ ToStrRes \/ Separate

SpecParse == InitParse /\ [][NextParse]_vars

(* ------------------------------------------------------------------ *)
(* What the properties are stated with                                 *)
(* ------------------------------------------------------------------ *)
RECURSIVE Binom(_, _)
Binom(n, k) ==
    IF k = 0 THEN 1 ELSE IF n = 0 THEN 0 ELSE Binom(n - 1, k - 1) + Binom(n - 1, k)

\* the occupation vectors of n particles over m modes
Occupations(m, n) == {v \in [1..m -> 0..n] : SumSeq(v) = n}

Sorted(b) == \A i \in 1..(Len(b) - 1) : b[i] <= b[i + 1]

\* the canonical form of a defined state
Canonical(fs) ==
    IsDefined(fs) =>
        /\ Len(fs.buf) = fs.n
        /\ \A k \in 1..fs.n : ModeOf(fs.buf[k]) >= 0 /\ ModeOf(fs.buf[k]) < fs.m
        /\ Sorted(fs.buf)
        /\ fs.n = SumSeq(to_vect(fs))

\* the text of m empty fields
EmptyFields(m) == <<"|">> \o [i \in 1..(m - 1) |-> ","] \o <<">">>

\* the value of a digit run
RECURSIVE DigitsValue(_)
DigitsValue(d) ==
    IF d = <<>> THEN 0
    ELSE 10 * DigitsValue(SubSeq(d, 1, Len(d) - 1)) + DigitVal(d[Len(d)])

\* the count of a sub-term: its digit run, 1 for an annotation token alone
SubCount(st) == IF st.d = <<>> THEN 1 ELSE DigitsValue(st.d)

RECURSIVE TermCount(_)
TermCount(term) ==
    IF term = <<>> THEN 0 ELSE SubCount(Head(term)) + TermCount(Tail(term))

\* the counts c0..c(m-1) of a derivation
Counts(g) == [i \in 1..Len(g.terms) |-> TermCount(g.terms[i])]

\* an annotation token on an explicit zero count, an unterminated "{"
SubDefect(st) ==
    \/ st.k = "open"
    \/ (st.k = "closed" /\ st.d # <<>> /\ DigitsValue(st.d) = 0)

TermDefect(term) == \E i \in 1..Len(term) : SubDefect(term[i])

\* form (a): a list of at least one mode-occupation term, each of one or
\* more sub-terms, between matching delimiters
FormA(g) ==
    /\ g.frame \in ValidFrames
    /\ Len(g.terms) >= 1
    /\ \A i \in 1..Len(g.terms) : g.terms[i] # <<>> /\ ~TermDefect(g.terms[i])

\* form (b): bare commas between matching delimiters
FormB(g) ==
    /\ g.frame \in ValidFrames
    /\ Len(g.terms) >= 2
    /\ \A i \in 1..Len(g.terms) : g.terms[i] = <<>>

\* a text that does not match the grammar (the text of no term, "|>", is
\* left aside)
Malformed(g) ==
    /\ ~FormA(g)
    /\ ~FormB(g)
    /\ ~(g.frame \in ValidFrames /\ Len(g.terms) = 0)

\* the decimal text of a count below 100
Decimal(v) ==
    IF v < 10 THEN <<Digits[v + 1]>> ELSE <<Digits[(v \div 10) + 1], Digits[(v % 10) + 1]>>

RECURSIVE JoinCounts(_)
JoinCounts(c) ==
    IF c = <<>> THEN <<>>
    ELSE IF Len(c) = 1 THEN Decimal(c[1])
    ELSE Decimal(c[1]) \o <<",">> \o JoinCounts(Tail(c))

\* the normalized text |c0,c1,...,c(m-1)>
Normalized(g) == <<"|">> \o JoinCounts(Counts(g)) \o <<">">>

\* the tags of the particles of a derivation, in particle order
RECURSIVE TermTags(_)
TermTags(term) ==
    IF term = <<>> THEN <<>>
    ELSE [i \in 1..SubCount(Head(term)) |->
             IF Head(term).k = "none" THEN "" ELSE Head(term).a]
         \o TermTags(Tail(term))

RECURSIVE TagsFrom(_, _)
TagsFrom(terms, i) ==
    IF i > Len(terms) THEN <<>> ELSE TermTags(terms[i]) \o TagsFrom(terms, i + 1)

TagsOf(g) == TagsFrom(g.terms, 1)

PairwiseIncompatible(tags) ==
    \A i, j \in 1..Len(tags) : i # j => ~compatible_annotation(tags[i], tags[j])

(* ------------------------------------------------------------------ *)
(* Properties                                                          *)
(* ------------------------------------------------------------------ *)

\* C1. Successor totality: from fockstate(m, n), m >= 1, ++ applied again and
\* again leaves the state defined before C(n+m-1, m-1) applications and
\* Undefined after exactly that many; the defined states visited are
\* pairwise unequal, and they are exactly the occupation vectors of n
\* particles over m modes.
C1_SuccessorTotality ==
    LET m == last.s
        n == last.e
        total == Binom(n + m - 1, m - 1)
    IN  /\ IsDefined(x) => last.k < total
        /\ ~IsDefined(x) => last.k = total /\ Len(hist) = total
        /\ \A i, j \in 1..Len(hist) : i # j => ~eq(hist[i], hist[j])
        /\ IsDefined(x) => \A i \in 1..Len(hist) : ~eq(hist[i], x)
        /\ \A i \in 1..Len(hist) :
              /\ hist[i].m = m /\ hist[i].n = n /\ Canonical(hist[i])
              /\ to_vect(hist[i]) \in Occupations(m, n)
        /\ ~IsDefined(x) =>
              {to_vect(hist[i]) : i \in 1..Len(hist)} = Occupations(m, n)

\* the (3, 3) space is exhausted after its 10 states
C1_Witness ==
    ~IsDefined(x) /\ last.s = 3 /\ last.e = 3 /\ last.k = 10 /\ Len(hist) = 10

C3_SliceSpliceInverse ==
    LET valid == IsDefined(x) /\ 0 <= last.s /\ last.s < last.e /\ last.e <= x.m /\ last.k = 1
    IN  /\ (last.op = "slice" /\ valid) => last.err = ErrNone /\ IsDefined(res)
        /\ (last.op = "set_slice" /\ last.src = "slice" /\ valid) =>
              /\ last.err = ErrNone
              /\ eq(res, x)
              /\ res.m = x.m
              /\ res.n = x.n

\* the slice of one occupied mode in the middle of a 3-mode state was put back
C3_Witness ==
    /\ last.op = "set_slice" /\ last.src = "slice" /\ last.k = 1 /\ last.err = ErrNone
    /\ last.s = 1 /\ last.e = 2 /\ x.m = 3 /\ x.n = 2 /\ last.pre.n = 1
    /\ IsDefined(x)

\* C4. Tensor product: for defined x and y, x * y is defined, has x.m + y.m
\* modes and x.n + y.n particles, its buffer is x's followed by y's with
\* every mode index raised by x.m, and its occupation vector is x's followed
\* by y's; with an Undefined operand it throws and returns nothing.
C4_TensorProduct ==
    last.op = "*" =>
        IF IsDefined(x) /\ IsDefined(y)
        THEN /\ last.err = ErrNone
             /\ IsDefined(res)
             /\ res.m = x.m + y.m
             /\ res.n = x.n + y.n
             /\ Len(res.buf) = x.n + y.n
             /\ \A k \in 1..x.n : res.buf[k] = x.buf[k]
             /\ \A k \in 1..y.n : ModeOf(res.buf[x.n + k]) = ModeOf(y.buf[k]) + x.m
             /\ to_vect(res) = to_vect(x) \o to_vect(y)
        ELSE last.err = ErrNdef /\ res = NoState

\* the product of two states with a particle each, the right one in its mode 1
C4_Witness ==
    /\ last.op = "*" /\ last.err = ErrNone
    /\ x.m = 1 /\ x.n = 1 /\ y.m = 2 /\ y.n = 1 /\ ModeOf(y.buf[1]) = 1

\* C5. Operations on Undefined states always fail: ++, + c and += c (c > 0)
\* on an Undefined state, * with an Undefined operand, slice of an Undefined
\* state, set_slice with an Undefined source or replacement, and [mode] on
\* an Undefined state with 0 <= mode < modes throw the ndef-state exception,
\* and leave the state as it was.
C5_UndefinedOperationsFail ==
    /\ (last.op \in {"++", "+=", "+"} /\ last.k > 0 /\ ~IsDefined(last.pre)) =>
          last.err = ErrNdef /\ x = last.pre
    /\ (last.op = "*" /\ (~IsDefined(x) \/ ~IsDefined(y))) => last.err = ErrNdef
    /\ (last.op = "slice" /\ ~IsDefined(x)) => last.err = ErrNdef
    /\ (last.op = "set_slice" /\ (~IsDefined(x) \/ ~IsDefined(last.pre))) =>
          last.err = ErrNdef
    /\ (last.op = "[]" /\ ~IsDefined(x) /\ 0 <= last.s /\ last.s < x.m) =>
          last.err = ErrNdef

\* C6, as stated. Equality rule: x == y iff same modes, same particle count,
\* both defined or both Undefined, and identical mode sequences; x != y is
\* the negation.
ClaimedEqual(a, b) ==
    a.m = b.m /\ a.n = b.n /\ IsDefined(a) = IsDefined(b) /\ a.buf = b.buf

C6_EqualityAsStated ==
    /\ last.op = "==" => (last.flag <=> ClaimedEqual(x, y))
    /\ last.op = "!=" => (last.flag <=> ~ClaimedEqual(x, y))

\* C6, amended. x == y iff same modes and same particle count and either
\* modes = 0, or both are Undefined, or both are defined with identical mode
\* sequences; x != y is the negation.
AmendedEqual(a, b) ==
    /\ a.m = b.m
    /\ a.n = b.n
    /\ (a.m = 0 \/ (IsDefined(a) = IsDefined(b) /\ a.buf = b.buf))

C6_EqualityAmended ==
    /\ last.op = "==" => (last.flag <=> AmendedEqual(x, y))
    /\ last.op = "!=" => (last.flag <=> ~AmendedEqual(x, y))

\* a defined and an Undefined state of 0 modes were compared, and are equal
C6_Witness ==
    /\ last.op = "==" /\ last.flag
    /\ x.m = 0 /\ IsDefined(x) /\ ~IsDefined(y)

\* C7. Defined-state round trip: a form-(a) text parses to a defined state
\* with one mode per term, the sum of the counts as particle count and the
\* counts as occupation vector (Populated if the sum is > 0, else
\* Empty-defined), and that state renders as the normalized text.
C7_ParseRenderRoundTrip ==
    /\ (last.op = "parse" /\ last.src = "text" /\ FormA(gram)) =>
          /\ last.err = ErrNone
          /\ IsDefined(res)
          /\ res.m = Len(gram.terms)
          /\ res.n = SumSeq(Counts(gram))
          /\ Canonical(res)
          /\ to_vect(res) = Counts(gram)
          /\ (res.n > 0 => res.code = HEAP)
          /\ (res.n = 0 => res.code = N0_BUFFER)
    /\ (last.op = "to_str" /\ last.src = "res" /\ FormA(gram)) =>
          txt = Normalized(gram)

\* a text of three terms with blanks, one of them of two digits, was parsed
\* and rendered
C7_Witness ==
    /\ last.op = "to_str" /\ last.src = "res" /\ FormA(gram)
    /\ gram.frame.blank /\ gram.frame.open = <<"[">>
    /\ Counts(gram) = <<2, 0, 10>>
    /\ txt = <<"|", "2", ",", "0", ",", "1", "0", ">">>

\* C8. Undefined-state round trip: the text of an Undefined state of m >= 1
\* modes is m empty fields, and parsing it gives an Undefined state of m
\* modes equal to the state rendered.
C8_UndefinedRoundTrip ==
    (last.op = "parse" /\ last.src = "to_str" /\ ~IsDefined(x) /\ x.m >= 1) =>
        /\ txt = EmptyFields(x.m)
        /\ last.err = ErrNone
        /\ ~IsDefined(res)
        /\ res.m = x.m
        /\ eq(res, x)

\* C9. Parse rejection: a text that does not match the grammar throws and
\* no state is built.
C9_MalformedRejected ==
    (last.op = "parse" /\ last.src = "text" /\ Malformed(gram)) =>
        last.err # ErrNone /\ res = NoState

\* C10. Partitioning: separate_state of a state of n > 0 particles with
\* pairwise-incompatible tags returns n states of one particle each, in
\* particle order; of a state with no annotation, or with no particle, a
\* list of one state equal to it.
C10_Partitioning ==
    (last.op = "separate_state" /\ FormA(gram)) =>
        LET tags == TagsOf(gram) IN
        /\ (res.n > 0 /\ PairwiseIncompatible(tags) /\ \A k \in 1..Len(tags) : tags[k] # "") =>
              /\ Len(hist) = res.n
              /\ \A k \in 1..Len(hist) :
                    hist[k].m = res.m /\ hist[k].n = 1 /\ hist[k].buf = <<res.buf[k]>>
        /\ (\A k \in 1..Len(tags) : tags[k] = "") =>
              Len(hist) = 1 /\ eq(hist[1], res)
        /\ res.n = 0 => Len(hist) = 1 /\ eq(hist[1], res)

====
